---- MODULE Spec2Model ----
(***************************************************************************)
(* A model of mini-kart's promotional-code validator                       *)
(* (internal/coupon): the membership set, the validator's construction,   *)
(* the concurrent quorum lookup of Validate, and the S3/file fallback      *)
(* loader.                                                                 *)
(*                                                                         *)
(* A promo code is the sequence of its Unicode code points; Go's len() of  *)
(* the string is the length of its UTF-8 encoding (GoLen).  A coupon set   *)
(* is the set of the codes it stores.  A path is a string.                 *)
(***************************************************************************)
EXTENDS Integers, Sequences, FiniteSets, TLC

(***************************************************************************)
(* Bounds of the model.                                                    *)
(***************************************************************************)
MaxSources == 3        \* at most this many configured coupon files
MaxCalls == 2          \* at most this many concurrent Validate calls
MaxStream == 4         \* at most this many characters in a decompressed coupon file
MaxCloses == 2         \* at most this many calls of Close
MaxAdds == 3           \* at most this many calls of Add on one set
MaxQueries == 2        \* at most this many calls of Contains between two calls of Add
MaxItems == 2          \* at most this many items in an order request

(***************************************************************************)
(* Program constants.                                                      *)
(***************************************************************************)
MinPromoLength == 8         \* validator.go:129
MaxPromoLength == 10        \* validator.go:129
RequiredMatches == 2        \* validator.go:140 (and 201, 207)
DefaultMinMatchCount == 2   \* validator.go:38
CancelCheckEvery == 1000000 \* part_004:59, s3_loader.go:95

(***************************************************************************)
(* The codes the model queries and stores.                                 *)
(***************************************************************************)
Rep(ch, n) == [i \in 1..n |-> ch]

CodeX == <<65, 66, 67, 68, 69, 70, 71, 72>>          \* "ABCDEFGH"
CodeXLower == <<97, 98, 99, 100, 101, 102, 103, 104>> \* "abcdefgh"
CodeY == Rep(89, 9)                                   \* "YYYYYYYYY"
CodeZ == Rep(90, 10)                                  \* "ZZZZZZZZZZ"
CodeEmpty == <<>>                                     \* ""
CodeShort == Rep(83, 7)                               \* "SSSSSSS"
CodeLong == Rep(76, 11)                               \* "LLLLLLLLLLL"

CodeAccented == Rep(233, 8)                           \* 8 characters, 16 bytes
CodeAccentedShort == Rep(233, 4)                      \* 4 characters, 8 bytes

QueryCodes == {CodeX, CodeXLower, CodeY, CodeZ, CodeEmpty, CodeShort, CodeLong,
               CodeAccented, CodeAccentedShort}

\* sources = {A:[X,Y], B:[X,Z], C:[Z]}
ExampleSources == << {CodeX, CodeY}, {CodeX, CodeZ}, {CodeZ} >>
\* TestValidator_Validate_CaseSensitive: two files hold the upper-case code
CaseSources == << {CodeX}, {CodeX}, {CodeZ} >>

\* A validator of two files: X is in both, Y in the first only
PairSources == << {CodeX, CodeY}, {CodeX} >>

\* Every assignment of CodeX to at most MaxSources sets, and the two scenarios
SetLists ==
    UNION {[1..n -> SUBSET {CodeX}] : n \in 0..MaxSources}
        \cup {ExampleSources, CaseSources}

\* The i-th configured coupon file (validator.go:34-36 names three of them)
CouponFile(i) == "couponbase" \o ToString(i) \o ".gz"

(***************************************************************************)
(* mapCouponSet (set.go).                                                  *)
(***************************************************************************)
NewMapCouponSet == {}

\* an Add that forgets the codes added before
AddReplacing(s, code) == {code}

Add(s, code) == s \cup {code}

\* a lookup that folds letter case
ContainsIgnoreCase(s, code) ==
    \E x \in s : Len(x) = Len(code) /\ \A i \in 1..Len(x) :
        (IF x[i] >= 65 /\ x[i] <= 90 THEN x[i] + 32 ELSE x[i])
            = (IF code[i] >= 65 /\ code[i] <= 90 THEN code[i] + 32 ELSE code[i])

Contains(s, code) == code \in s

Size(s) == Cardinality(s)

(***************************************************************************)
(* len(promoCode): the number of bytes of the UTF-8 encoding.              *)
(***************************************************************************)
Utf8Len(r) == IF r < 128 THEN 1 ELSE IF r < 2048 THEN 2 ELSE IF r < 65536 THEN 3 ELSE 4

RECURSIVE GoLen(_)
GoLen(s) == IF s = <<>> THEN 0 ELSE Utf8Len(Head(s)) + GoLen(Tail(s))

\* a length check that rejects the upper bound
InvalidLengthExclusive(code) ==
    GoLen(code) < MinPromoLength \/ GoLen(code) >= MaxPromoLength

\* validator.go:129
InvalidLength(code) == GoLen(code) < MinPromoLength \/ GoLen(code) > MaxPromoLength

\* a comparison that asks for more than RequiredMatches
ValidateResultStrict(matchCount) ==
    IF matchCount <= RequiredMatches THEN "ErrInvalidPromoCode" ELSE "nil"

\* validator.go:140-153: the error Validate returns for countMatches' result
ValidateResult(matchCount) ==
    IF matchCount < RequiredMatches THEN "ErrInvalidPromoCode" ELSE "nil"

\* validator.go:201
QuorumReached(m) == m >= RequiredMatches

\* validator.go:206-207
QuorumImpossible(m, remaining) == m + remaining < RequiredMatches

(***************************************************************************)
(* State.                                                                  *)
(***************************************************************************)
VARIABLES
    config,      \* ValidatorConfig: [FilePaths, MinMatchCount]
    couponSets,  \* validator.couponSets
    callers,     \* the calls of Validate the environment makes
    pc,          \* per call: "idle", "collect" (the loop of countMatches), "done"
    promoCode,   \* per call: the argument of Validate
    ctxDone,     \* per call: ctx.Done() is closed
    resultChan,  \* per call: the buffered results, oldest first
    chanCap,     \* per call: cap(resultChan)
    doneChan,    \* per call: doneChan is closed
    matches,     \* per call: countMatches' matches
    checked,     \* per call: countMatches' checked
    ret,         \* per call: what Validate returned ("none" before it returns)
    returnSite,  \* per call: the return statement Validate left by
    worker,      \* per call: the lookup goroutines, one record per coupon set
    \* NewValidator
    nvpc,        \* "idle", "wait" (at wg.Wait()), "returned"
    loadTask,    \* the load goroutines: [pc, set, err] per configured file
    loadChan,    \* NewValidator's resultChan of loadResult, oldest first
    wg,          \* the WaitGroup's counter
    nvRet,       \* what NewValidator returned: [v, err]
    \* fallbackLoader
    fl,          \* the loader's fields: [s3Enabled, hasS3Loader, s3Prefix]
    flpc,        \* "idle", "s3" (in s3Loader.Load), "file" (in fileLoader.Load), "returned"
    flPath,      \* the filePath argument of Load
    s3Calls,     \* the keys s3Loader.Load was invoked with
    fileCalls,   \* the paths fileLoader.Load was invoked with
    s3Ret,       \* what s3Loader.Load returned
    fileRet,     \* what fileLoader.Load returned
    flRet,       \* what fallbackLoader.Load returned
    \* run (cmd/api/main.go)
    app,         \* run's progress: [pc, s3Enabled, s3Prefix, s3LoaderInit, couponLoader, err]
    s3Has,       \* the configured files whose object is in the bucket under S3_PREFIX + name
    localHas,    \* the configured files that load from the local file system
    loadCalls,   \* the Load calls made at startup: [loader, key]
    \* fileLoader.Load / s3Loader.Load
    lpc,         \* "idle", "gzip" (at gzip.NewReader), "scan" (the scanner loop), "returned"
    lkind,       \* "file" or "s3": which of the two loaders runs
    lstream,     \* the decompressed content of the file, a sequence of code points
    scanner,     \* what the scanner has not consumed yet
    scanErr,     \* scanner.Err() is non-nil
    loadSet,     \* Load's local set
    lineCount,   \* Load's local lineCount
    lctxDone,    \* Load's ctx.Done() is closed
    lret,        \* what Load returned: [set, err]
    \* validator.Close
    closeRet,      \* the errors the calls of Close returned, oldest first
    couponSetsNil, \* v.couponSets == nil
    \* mapCouponSet
    coupons,     \* the keys of mapCouponSet.coupons
    added,       \* the arguments of the Add calls made, oldest first
    lastAdd,     \* the latest Add: [code, present, size, contains] as they were before it
    contained,   \* the Contains calls made since the latest Add: [code, result]
    \* orderService.CreateOrder
    req,         \* the request: [isNil, CouponCode, Items]
    opc,         \* the call CreateOrder makes next, or "returned"
    trace,       \* the calls CreateOrder has made, oldest first
    vret,        \* what validator.Validate returned ("none" if not called)
    oerr,        \* CreateOrder's err variable, which the deferred rollback reads
    oret,        \* what CreateOrder returned: [resp, err]
    \* the validator of part_008 (RWMutex, WaitGroup), one Validate call
    wpc,         \* "idle", "wait" (wg.Wait() of countMatches), "done"
    wcode,       \* the call's promoCode
    wctxDone,    \* the call's ctx.Done() is closed
    wworker,     \* per set: [pc, s, found] of the lookup goroutine
    wchan,       \* resultChan of countMatches
    wwg,         \* the WaitGroup's counter
    wret         \* what Validate returned

vvars == << config, couponSets, callers, pc, promoCode, ctxDone, resultChan,
            chanCap, doneChan, matches, checked, ret, returnSite, worker >>

cvars == << nvpc, loadTask, loadChan, wg, nvRet >>

fvars == << fl, flpc, flPath, s3Calls, fileCalls, s3Ret, fileRet, flRet >>

avars == << app, s3Has, localHas, loadCalls >>

lvars == << lpc, lkind, lstream, scanner, scanErr, loadSet, lineCount, lctxDone, lret >>

\* The state outside the validator, its construction and the fallback loader
kvars == << closeRet, couponSetsNil >>

svars == << coupons, added, lastAdd, contained >>

ovars == << req, opc, trace, vret, oerr, oret >>

wvars == << wpc, wcode, wctxDone, wworker, wchan, wwg, wret >>

xvars == << avars, lvars, kvars, svars, ovars, wvars >>

\* What CreateOrder leaves alone
outsideOrder == << vvars, cvars, fvars, avars, lvars, kvars, svars, wvars >>

\* What the operations of a coupon set leave alone
outsideSet == << vvars, cvars, fvars, avars, lvars, kvars, ovars, wvars >>

\* What run and its NewValidator call leave alone
outsideStartup == << fvars, lvars, kvars, svars, ovars, wvars >>

\* What a loader's Load leaves alone
outsideLoad == << vvars, cvars, fvars, avars, kvars, svars, ovars, wvars >>

\* What Close leaves alone, besides the validator's other fields
outsideClose == << cvars, fvars, avars, lvars, svars, ovars, wvars >>

vars == << vvars, cvars, fvars, xvars >>

\* No NewValidator call is in progress
NoConstruction ==
    /\ nvpc = "idle"
    /\ loadTask = <<>>
    /\ loadChan = <<>>
    /\ wg = 0
    /\ nvRet = [v |-> "nil", err |-> "nil"]

\* A CouponSet reference is Nil or Ref(s) for a set s; an error is the string
\* of its message, "nil" for no error.
Nil == {}

Ref(s) == {s}

Deref(r) == CHOOSE s \in r : TRUE

NoResult == [set |-> Nil, err |-> "nil"]

\* No fallbackLoader is in use
NoFallback ==
    /\ fl = [s3Enabled |-> FALSE, hasS3Loader |-> FALSE, s3Prefix |-> ""]
    /\ flpc = "idle"
    /\ flPath = ""
    /\ s3Calls = <<>>
    /\ fileCalls = <<>>
    /\ s3Ret = NoResult
    /\ fileRet = NoResult
    /\ flRet = NoResult

\* run has not been entered
NoStartup ==
    /\ app = [pc |-> "idle", s3Enabled |-> FALSE, s3Prefix |-> "", s3LoaderInit |-> "none",
              couponLoader |-> "none", err |-> "nil"]
    /\ s3Has = {}
    /\ localHas = {}
    /\ loadCalls = {}

\* No Load of a file or S3 loader is in progress
NoLoad ==
    /\ lpc = "idle"
    /\ lkind = "file"
    /\ lstream = <<>>
    /\ scanner = <<>>
    /\ scanErr = FALSE
    /\ loadSet = {}
    /\ lineCount = 0
    /\ lctxDone = FALSE
    /\ lret = NoResult

\* Nothing outside the validator, its construction and the fallback loader is in use
\* Close has not been called on the validator
NoClose ==
    /\ closeRet = <<>>
    /\ couponSetsNil = FALSE

\* The codes a test adds to a set and asks it for
SetCodes == {CodeX, CodeXLower, CodeY}

NoLastAdd == [code |-> <<>>, present |-> FALSE, size |-> 0, contains |-> {}]

\* A set as NewMapCouponSet returns it, with no call made on it
NoSetOps ==
    /\ coupons = NewMapCouponSet
    /\ added = <<>>
    /\ lastAdd = NoLastAdd
    /\ contained = <<>>

\* CreateOrder has not been called
NoOrder ==
    /\ req = [isNil |-> TRUE, CouponCode |-> Nil, Items |-> <<>>]
    /\ opc = "idle"
    /\ trace = <<>>
    /\ vret = "none"
    /\ oerr = "nil"
    /\ oret = [resp |-> "nil", err |-> "nil"]

\* Validate of the part_008 validator has not been called
NoWaitAll ==
    /\ wpc = "idle"
    /\ wcode = <<>>
    /\ wctxDone = FALSE
    /\ wworker = <<>>
    /\ wchan = <<>>
    /\ wwg = 0
    /\ wret = "none"

NoExtras == NoStartup /\ NoLoad /\ NoClose /\ NoSetOps /\ NoOrder /\ NoWaitAll

Calls == 1..MaxCalls

(***************************************************************************)
(* The validator NewValidator returns for one of the set lists and one of  *)
(* the quorums, queried by the calls who.                                  *)
(***************************************************************************)
InitValidator(lists, quorums, who) ==
    /\ \E sets \in lists : \E q \in quorums :
          /\ config = [FilePaths |-> [i \in 1..Len(sets) |-> CouponFile(i)], MinMatchCount |-> q]
          /\ couponSets = sets
    /\ callers = who
    /\ pc = [c \in Calls |-> "idle"]
    /\ promoCode = [c \in Calls |-> <<>>]
    /\ ctxDone = [c \in Calls |-> FALSE]
    /\ resultChan = [c \in Calls |-> <<>>]
    /\ chanCap = [c \in Calls |-> 0]
    /\ doneChan = [c \in Calls |-> FALSE]
    /\ matches = [c \in Calls |-> 0]
    /\ checked = [c \in Calls |-> 0]
    /\ ret = [c \in Calls |-> "none"]
    /\ returnSite = [c \in Calls |-> "none"]
    /\ worker = [c \in Calls |-> <<>>]
    /\ NoConstruction
    /\ NoFallback
    /\ NoExtras

\* Validate returns err from the return statement site; the deferred
\* close(doneChan) of countMatches runs when site is one of its returns.
Return(c, err, site) ==
    /\ pc' = [pc EXCEPT ![c] = "done"]
    /\ ret' = [ret EXCEPT ![c] = err]
    /\ returnSite' = [returnSite EXCEPT ![c] = site]

\* validator.go:127-135, 158-188: the length check, then the channels and one
\* goroutine per coupon set.
Validate(c, code) ==
    /\ c \in callers
    /\ pc[c] = "idle"
    /\ promoCode' = [promoCode EXCEPT ![c] = code]
    /\ IF InvalidLength(code)
       THEN /\ Return(c, "ErrInvalidPromoLength", "length")
            /\ UNCHANGED << resultChan, chanCap, doneChan, matches, checked, worker >>
       ELSE /\ pc' = [pc EXCEPT ![c] = "collect"]
            /\ resultChan' = [resultChan EXCEPT ![c] = <<>>]
            /\ chanCap' = [chanCap EXCEPT ![c] = Len(couponSets)]
            /\ doneChan' = [doneChan EXCEPT ![c] = FALSE]
            /\ matches' = [matches EXCEPT ![c] = 0]
            /\ checked' = [checked EXCEPT ![c] = 0]
            /\ worker' = [worker EXCEPT ![c] =
                             [i \in 1..Len(couponSets) |->
                                 [pc |-> "start", s |-> couponSets[i], found |-> FALSE]]]
            /\ UNCHANGED << ret, returnSite >>
    /\ UNCHANGED << config, couponSets, callers, ctxDone >>
    /\ UNCHANGED << cvars, fvars, xvars >>

\* a lookup that takes the code out of the set in which it finds it
WorkerLookupConsuming(c, i) ==
    /\ i \in DOMAIN worker[c]
    /\ worker[c][i].pc = "start"
    /\ worker' = [worker EXCEPT ![c][i] =
                     IF doneChan[c] \/ ctxDone[c]
                     THEN [pc |-> "exit", s |-> @.s, found |-> @.found]
                     ELSE [pc |-> "send", s |-> @.s,
                           found |-> Contains(@.s, promoCode[c])]]
    /\ couponSets' = IF doneChan[c] \/ ctxDone[c] \/ i \notin DOMAIN couponSets
                     THEN couponSets
                     ELSE [couponSets EXCEPT ![i] = @ \ {promoCode[c]}]
    /\ UNCHANGED << config, callers, pc, promoCode, ctxDone, resultChan,
                    chanCap, doneChan, matches, checked, ret, returnSite >>
    /\ UNCHANGED << cvars, fvars, xvars >>

\* validator.go:169-177: the goroutine's first select takes a ready case, and
\* its default, the lookup, only when neither channel is closed.
WorkerLookup(c, i) ==
    /\ i \in DOMAIN worker[c]
    /\ worker[c][i].pc = "start"
    /\ worker' = [worker EXCEPT ![c][i] =
                     IF doneChan[c] \/ ctxDone[c]
                     THEN [pc |-> "exit", s |-> @.s, found |-> @.found]
                     ELSE [pc |-> "send", s |-> @.s,
                           found |-> Contains(@.s, promoCode[c])]]
    /\ UNCHANGED << config, couponSets, callers, pc, promoCode, ctxDone, resultChan,
                    chanCap, doneChan, matches, checked, ret, returnSite >>
    /\ UNCHANGED << cvars, fvars, xvars >>

\* a result channel that all calls share (the first call's)
WorkerSendShared(c, i) ==
    /\ i \in DOMAIN worker[c]
    /\ worker[c][i].pc = "send"
    /\ Len(resultChan[1]) < chanCap[1]
    /\ resultChan' = [resultChan EXCEPT ![1] = Append(@, worker[c][i].found)]
    /\ worker' = [worker EXCEPT ![c][i].pc = "exit"]
    /\ UNCHANGED << config, couponSets, callers, pc, promoCode, ctxDone, chanCap,
                    doneChan, matches, checked, ret, returnSite >>
    /\ UNCHANGED << cvars, fvars, xvars >>

\* a send that the goroutine repeats instead of exiting
WorkerSendAgain(c, i) ==
    /\ i \in DOMAIN worker[c]
    /\ worker[c][i].pc = "send"
    /\ Len(resultChan[c]) < chanCap[c]
    /\ resultChan' = [resultChan EXCEPT ![c] = Append(@, worker[c][i].found)]
    /\ UNCHANGED << config, couponSets, callers, pc, promoCode, ctxDone, chanCap,
                    doneChan, matches, checked, ret, returnSite, worker >>
    /\ UNCHANGED << cvars, fvars, xvars >>

\* validator.go:180-181: the send case of the second select
WorkerSend(c, i) ==
    /\ i \in DOMAIN worker[c]
    /\ worker[c][i].pc = "send"
    /\ Len(resultChan[c]) < chanCap[c]
    /\ resultChan' = [resultChan EXCEPT ![c] = Append(@, worker[c][i].found)]
    /\ worker' = [worker EXCEPT ![c][i].pc = "exit"]
    /\ UNCHANGED << config, couponSets, callers, pc, promoCode, ctxDone, chanCap,
                    doneChan, matches, checked, ret, returnSite >>
    /\ UNCHANGED << cvars, fvars, xvars >>

\* validator.go:182-185: the doneChan and ctx.Done() cases of the second select
WorkerAbandon(c, i) ==
    /\ i \in DOMAIN worker[c]
    /\ worker[c][i].pc = "send"
    /\ doneChan[c] \/ ctxDone[c]
    /\ worker' = [worker EXCEPT ![c][i].pc = "exit"]
    /\ UNCHANGED << config, couponSets, callers, pc, promoCode, ctxDone, resultChan,
                    chanCap, doneChan, matches, checked, ret, returnSite >>
    /\ UNCHANGED << cvars, fvars, xvars >>

\* validator.go:137-153 after countMatches returned m at site
ReturnMatches(c, m, site) ==
    /\ Return(c, ValidateResult(m), site)
    /\ doneChan' = [doneChan EXCEPT ![c] = TRUE]

\* validator.go:194, 205: what a read of len(v.couponSets) in the loop of call c
\* can yield. The field is read without synchronisation: once Close
\* (validator.go:221) has written nil, a read races with that write and yields
\* the length the call started with or 0.
LenCouponSets(c) ==
    IF couponSetsNil THEN {0, chanCap[c]} ELSE {Len(couponSets)}

\* a loop that counts every result it receives as a match
ReceiveCountingAll(c) ==
    /\ pc[c] = "collect"
    /\ checked[c] < Len(couponSets)
    /\ resultChan[c] # <<>>
    /\ LET k == checked[c] + 1
           m == matches[c] + 1
           remaining == Len(couponSets) - k
       IN  /\ resultChan' = [resultChan EXCEPT ![c] = Tail(@)]
           /\ checked' = [checked EXCEPT ![c] = k]
           /\ matches' = [matches EXCEPT ![c] = m]
           /\ IF QuorumReached(m)
              THEN ReturnMatches(c, m, "quorum")
              ELSE IF QuorumImpossible(m, remaining)
                   THEN ReturnMatches(c, m, "impossible")
                   ELSE UNCHANGED << pc, ret, returnSite, doneChan >>
    /\ UNCHANGED << config, couponSets, callers, promoCode, ctxDone, chanCap, worker >>
    /\ UNCHANGED << cvars, fvars, xvars >>

\* validator.go:194-209: the loop receives one result
Receive(c) ==
    /\ pc[c] = "collect"
    /\ \E n \in LenCouponSets(c) : checked[c] < n
    /\ resultChan[c] # <<>>
    /\ \E n \in LenCouponSets(c) :
           LET found == Head(resultChan[c])
               k == checked[c] + 1
               m == IF found THEN matches[c] + 1 ELSE matches[c]
               remaining == n - k
           IN  /\ resultChan' = [resultChan EXCEPT ![c] = Tail(@)]
               /\ checked' = [checked EXCEPT ![c] = k]
               /\ matches' = [matches EXCEPT ![c] = m]
               /\ IF found /\ QuorumReached(m)
                  THEN ReturnMatches(c, m, "quorum")
                  ELSE IF QuorumImpossible(m, remaining)
                       THEN ReturnMatches(c, m, "impossible")
                       ELSE UNCHANGED << pc, ret, returnSite, doneChan >>
    /\ UNCHANGED << config, couponSets, callers, promoCode, ctxDone, chanCap, worker >>
    /\ UNCHANGED << cvars, fvars, xvars >>

\* a loop whose select has no ctx.Done() case
ReceiveNeverCancelled(c) ==
    /\ pc[c] = "collect"
    /\ FALSE
    /\ UNCHANGED << config, couponSets, callers, pc, promoCode, ctxDone, resultChan,
                    chanCap, doneChan, matches, checked, ret, returnSite, worker >>
    /\ UNCHANGED << cvars, fvars, xvars >>

\* validator.go:210-211: the ctx.Done() case of the loop's select
ReceiveCancelled(c) ==
    /\ pc[c] = "collect"
    /\ \E n \in LenCouponSets(c) : checked[c] < n
    /\ ctxDone[c]
    /\ ReturnMatches(c, matches[c], "cancelled")
    /\ UNCHANGED << config, couponSets, callers, promoCode, ctxDone, resultChan,
                    chanCap, matches, checked, worker >>
    /\ UNCHANGED << cvars, fvars, xvars >>

\* validator.go:194, 215: the loop condition fails
LoopEnd(c) ==
    /\ pc[c] = "collect"
    /\ \E n \in LenCouponSets(c) : ~(checked[c] < n)
    /\ ReturnMatches(c, matches[c], "loopEnd")
    /\ UNCHANGED << config, couponSets, callers, promoCode, ctxDone, resultChan,
                    chanCap, matches, checked, worker >>
    /\ UNCHANGED << cvars, fvars, xvars >>

\* The caller's context is cancelled or its deadline fires, while the call or
\* one of its goroutines can still observe it.
Cancel(c) ==
    /\ ~ctxDone[c]
    /\ \/ pc[c] = "collect"
       \/ \E i \in DOMAIN worker[c] : worker[c][i].pc # "exit"
    /\ ctxDone' = [ctxDone EXCEPT ![c] = TRUE]
    /\ UNCHANGED << config, couponSets, callers, pc, promoCode, resultChan, chanCap,
                    doneChan, matches, checked, ret, returnSite, worker >>
    /\ UNCHANGED << cvars, fvars, xvars >>

ValidateNext ==
    \E c \in Calls :
        \/ \E code \in QueryCodes : Validate(c, code)
        \/ \E i \in DOMAIN worker[c] : WorkerLookup(c, i)
        \/ \E i \in DOMAIN worker[c] : WorkerSend(c, i)
        \/ \E i \in DOMAIN worker[c] : WorkerAbandon(c, i)
        \/ Receive(c)
        \/ ReceiveCancelled(c)
        \/ LoopEnd(c)
        \/ Cancel(c)

\* One caller; the configured quorum is any MinMatchCount up to MaxSources
Init == InitValidator(SetLists, 1..MaxSources, {1})

Next == ValidateNext

Spec == Init /\ [][Next]_vars

\* The goroutine that runs Validate is scheduled as long as it can take a step
\* of countMatches' loop; nothing is assumed of the lookup goroutines.
LoopStep(c) == Receive(c) \/ ReceiveCancelled(c) \/ LoopEnd(c)

FairInit == InitValidator(SetLists, {DefaultMinMatchCount}, {1})

FairSpec == FairInit /\ [][Next]_vars /\ \A c \in Calls : WF_vars(LoopStep(c))

\* A step of the lookup goroutine i of call c
WorkerStep(c, i) == WorkerLookup(c, i) \/ WorkerSend(c, i) \/ WorkerAbandon(c, i)

\* The validators of MaxSources files of which the first k hold "ABCDEFGH"
HitLists ==
    {[i \in 1..MaxSources |-> IF i <= k THEN {CodeX} ELSE {}] : k \in 0..MaxSources}

\* One call on a validator of MaxSources files, or of none
WorkersInit == InitValidator(HitLists \cup {<<>>}, {DefaultMinMatchCount}, {1})

WorkersNext ==
    \/ \E code \in {CodeX, CodeShort} : Validate(1, code)
    \/ \E i \in DOMAIN worker[1] : WorkerStep(1, i)
    \/ LoopStep(1)
    \/ Cancel(1)

\* Every goroutine that can take a step is scheduled, and Contains returns
SpecWorkersFair ==
    /\ WorkersInit /\ [][WorkersNext]_vars
    /\ WF_vars(LoopStep(1))
    /\ \A i \in 1..MaxSources : WF_vars(WorkerStep(1, i))

\* MaxCalls calls of Validate run at once on one validator, each with its own
\* code, under a context that is never cancelled (part_007:164, 196).
\* A caller that calls Validate and repeats the call on the same validator:
\* call 2 starts after call 1 has returned and its lookup goroutines have
\* exited, and either call's context may be cancelled
RepeatInit ==
    InitValidator({<<>>, ExampleSources}, {DefaultMinMatchCount}, {1, 2})

RepeatNext ==
    \E c \in Calls :
        \/ \E code \in {CodeX, CodeY, CodeShort} :
               /\ IF c = 1 THEN TRUE
                  ELSE /\ pc[c - 1] = "done"
                       /\ \A i \in DOMAIN worker[c - 1] : worker[c - 1][i].pc = "exit"
               /\ Validate(c, code)
        \/ \E i \in DOMAIN worker[c] : WorkerStep(c, i)
        \/ LoopStep(c)
        \/ Cancel(c)

SpecRepeat == RepeatInit /\ [][RepeatNext]_vars

ConcurrentCodes == {CodeX, CodeY, CodeShort}

ConcurrentInit == InitValidator({PairSources}, {DefaultMinMatchCount}, Calls)

ConcurrentNext ==
    \E c \in Calls :
        \/ \E code \in ConcurrentCodes : Validate(c, code)
        \/ \E i \in DOMAIN worker[c] : WorkerLookup(c, i)
        \/ \E i \in DOMAIN worker[c] : WorkerSend(c, i)
        \/ \E i \in DOMAIN worker[c] : WorkerAbandon(c, i)
        \/ Receive(c)

SpecConcurrent == ConcurrentInit /\ [][ConcurrentNext]_vars

(***************************************************************************)
(* NewValidator (validator.go:44-121) over a Loader whose Load either      *)
(* returns the file's set or fails.                                        *)
(***************************************************************************)
\* The codes of the i-th coupon file: one in every file, one of its own
SourceSet(i) == {CodeX, Rep(64 + i, 8)}

\* What loader.Load(ctx, path) can return for the i-th configured file
LoadOutcomes(i, path) ==
    { [set |-> Ref(SourceSet(i)), err |-> "nil"],
      [set |-> Nil, err |-> "failed to open coupon file " \o path] }

\* validator.go:89-93: results[result.index] = result, in the channel's order
RECURSIVE CollectResults(_, _)
CollectResults(chan, results) ==
    IF chan = <<>> THEN results
    ELSE CollectResults(Tail(chan),
                        [results EXCEPT ![Head(chan).index] =
                            [set |-> Head(chan).set, err |-> Head(chan).err]])

\* an assembly that leaves failed sources out instead of failing
AssembleSkippingFailures(paths, chan) ==
    LET results == CollectResults(chan, [i \in 1..Len(paths) |-> NoResult])
        ok == SelectSeq(results, LAMBDA r : r.err = "nil")
    IN  [v |-> "validator", err |-> "nil", sets |-> [i \in 1..Len(ok) |-> Deref(ok[i].set)]]

\* an assembly that appends the sets in the order of their arrival
AssembleArrivalOrder(paths, chan) ==
    LET bad == SelectSeq(chan, LAMBDA r : r.err # "nil")
    IN  IF bad # <<>>
        THEN [v |-> "nil",
              err |-> "failed to load coupon file " \o paths[bad[1].index] \o ": " \o bad[1].err,
              sets |-> <<>>]
        ELSE [v |-> "validator", err |-> "nil",
              sets |-> [i \in 1..Len(chan) |-> Deref(chan[i].set)]]

\* an assembly that reports the failure that arrived first on the channel
AssembleFirstArrived(paths, chan) ==
    LET results == CollectResults(chan, [i \in 1..Len(paths) |-> NoResult])
        bad == SelectSeq(chan, LAMBDA r : r.err # "nil")
    IN  IF bad # <<>>
        THEN [v |-> "nil",
              err |-> "failed to load coupon file " \o paths[bad[1].index] \o ": " \o bad[1].err,
              sets |-> <<>>]
        ELSE [v |-> "validator", err |-> "nil",
              sets |-> [i \in 1..Len(paths) |-> Deref(results[i].set)]]

\* validator.go:89-120: collect the results by index, fail on the first index
\* whose load failed, else append every set in index order
Assemble(paths, chan) ==
    LET results == CollectResults(chan, [i \in 1..Len(paths) |-> NoResult])
        failed == {i \in 1..Len(paths) : results[i].err # "nil"}
    IN  IF failed # {}
        THEN LET i == CHOOSE k \in failed : \A j \in failed : k <= j
             IN  [v |-> "nil",
                  err |-> "failed to load coupon file " \o paths[i] \o ": " \o results[i].err,
                  sets |-> <<>>]
        ELSE [v |-> "validator", err |-> "nil",
              sets |-> [i \in 1..Len(paths) |-> Deref(results[i].set)]]

\* validator.go:44-83: the validator is allocated and one load goroutine
\* started per configured file
NewValidator ==
    /\ nvpc = "idle"
    /\ nvpc' = "wait"
    /\ loadTask' = [i \in 1..Len(config.FilePaths) |-> [pc |-> "load", set |-> Nil, err |-> "nil"]]
    /\ loadChan' = <<>>
    /\ wg' = Len(config.FilePaths)
    /\ UNCHANGED << nvRet, vvars, fvars, xvars >>

\* validator.go:76: loader.Load returns in goroutine i
LoadReturns(i) ==
    /\ i \in DOMAIN loadTask
    /\ loadTask[i].pc = "load"
    /\ \E out \in LoadOutcomes(i, config.FilePaths[i]) :
           loadTask' = [loadTask EXCEPT ![i] = [pc |-> "send", set |-> out.set, err |-> out.err]]
    /\ UNCHANGED << nvpc, loadChan, wg, nvRet, vvars, fvars, xvars >>

\* validator.go:74, 77-81: goroutine i publishes its result, then wg.Done()
LoadSend(i) ==
    /\ i \in DOMAIN loadTask
    /\ loadTask[i].pc = "send"
    /\ Len(loadChan) < Len(config.FilePaths)
    /\ loadChan' = Append(loadChan,
                          [index |-> i, set |-> loadTask[i].set, err |-> loadTask[i].err])
    /\ wg' = wg - 1
    /\ loadTask' = [loadTask EXCEPT ![i].pc = "done"]
    /\ UNCHANGED << nvpc, nvRet, vvars, fvars, xvars >>

\* a construction that returns as soon as a failed load has been published
NewValidatorReturnFailFast ==
    /\ nvpc = "wait"
    /\ wg = 0 \/ \E k \in DOMAIN loadChan : loadChan[k].err # "nil"
    /\ LET a == Assemble(config.FilePaths, loadChan)
       IN  /\ nvRet' = [v |-> a.v, err |-> a.err]
           /\ couponSets' = a.sets
    /\ loadChan' = <<>>
    /\ nvpc' = "returned"
    /\ UNCHANGED << loadTask, wg, fvars, xvars, config, callers, pc, promoCode, ctxDone,
                    resultChan, chanCap, doneChan, matches, checked, ret, returnSite,
                    worker >>

\* validator.go:86-120: wg.Wait() returns, the channel is closed and drained,
\* and NewValidator returns
NewValidatorReturn ==
    /\ nvpc = "wait"
    /\ wg = 0
    /\ LET a == Assemble(config.FilePaths, loadChan)
       IN  /\ nvRet' = [v |-> a.v, err |-> a.err]
           /\ couponSets' = a.sets
    /\ loadChan' = <<>>
    /\ nvpc' = "returned"
    /\ UNCHANGED << loadTask, wg, fvars, xvars, config, callers, pc, promoCode, ctxDone,
                    resultChan, chanCap, doneChan, matches, checked, ret, returnSite,
                    worker >>

\* NewValidator is about to be called with a configuration of up to MaxSources files
ConstructInit ==
    /\ \E n \in 0..MaxSources : \E q \in 1..MaxSources :
           config = [FilePaths |-> [i \in 1..n |-> CouponFile(i)], MinMatchCount |-> q]
    /\ couponSets = <<>>
    /\ callers = {}
    /\ pc = [c \in Calls |-> "idle"]
    /\ promoCode = [c \in Calls |-> <<>>]
    /\ ctxDone = [c \in Calls |-> FALSE]
    /\ resultChan = [c \in Calls |-> <<>>]
    /\ chanCap = [c \in Calls |-> 0]
    /\ doneChan = [c \in Calls |-> FALSE]
    /\ matches = [c \in Calls |-> 0]
    /\ checked = [c \in Calls |-> 0]
    /\ ret = [c \in Calls |-> "none"]
    /\ returnSite = [c \in Calls |-> "none"]
    /\ worker = [c \in Calls |-> <<>>]
    /\ NoConstruction
    /\ NoFallback
    /\ NoExtras

ConstructNext ==
    \/ NewValidator
    \/ \E i \in DOMAIN loadTask : LoadReturns(i)
    \/ \E i \in DOMAIN loadTask : LoadSend(i)
    \/ NewValidatorReturn

SpecConstruct == ConstructInit /\ [][ConstructNext]_vars

\* Every Load call returns, and every goroutine that can take a step is scheduled
SpecConstructFair ==
    /\ ConstructInit /\ [][ConstructNext]_vars
    /\ \A i \in 1..MaxSources : WF_vars(LoadReturns(i)) /\ WF_vars(LoadSend(i))
    /\ WF_vars(NewValidatorReturn)

(***************************************************************************)
(* fallbackLoader (s3_loader.go:132-192) over two delegate Loaders, each   *)
(* of which returns a set with no error or no set with an error.           *)
(***************************************************************************)
S3Prefixes == {"", "coupons/"}

S3Set == {CodeX, CodeZ}

LocalSet == {CodeX, CodeY}

\* What the s3Loader passed to NewFallbackLoader can return
S3Outcomes ==
    { [set |-> Ref(S3Set), err |-> "nil"],
      [set |-> Nil, err |-> "failed to get object from S3"],
      [set |-> Nil, err |-> "failed to create gzip reader for S3 object"] }

\* What the fileLoader passed to NewFallbackLoader can return
FileOutcomes ==
    { [set |-> Ref(LocalSet), err |-> "nil"],
      [set |-> Nil, err |-> "failed to open coupon file"],
      [set |-> Nil, err |-> "failed to create gzip reader"] }

\* s3_loader.go:160
S3Key(prefix, filePath) == prefix \o filePath

\* a condition that ignores the enabled flag
TryS3IgnoringEnabled(l) == l.hasS3Loader

\* s3_loader.go:158
TryS3(l) == l.s3Enabled /\ l.hasS3Loader

\* s3_loader.go:156-167, 179-191: Load invokes the S3 loader, or the file
\* loader when S3 is disabled or not configured
FallbackLoad(filePath) ==
    /\ flpc = "idle"
    /\ flPath' = filePath
    /\ IF TryS3(fl)
       THEN /\ s3Calls' = Append(s3Calls, S3Key(fl.s3Prefix, filePath))
            /\ flpc' = "s3"
            /\ UNCHANGED fileCalls
       ELSE /\ fileCalls' = Append(fileCalls, filePath)
            /\ flpc' = "file"
            /\ UNCHANGED s3Calls
    /\ UNCHANGED << fl, s3Ret, fileRet, flRet, vvars, cvars, xvars >>

\* s3_loader.go:167-178, 186-191: the S3 loader returns; on success Load returns
\* its set, on an error it invokes the file loader with filePath
S3LoadReturns ==
    /\ flpc = "s3"
    /\ \E out \in S3Outcomes :
          /\ s3Ret' = out
          /\ IF out.err = "nil"
             THEN /\ flRet' = [set |-> out.set, err |-> "nil"]
                  /\ flpc' = "returned"
                  /\ UNCHANGED fileCalls
             ELSE /\ fileCalls' = Append(fileCalls, flPath)
                  /\ flpc' = "file"
                  /\ UNCHANGED flRet
    /\ UNCHANGED << fl, flPath, s3Calls, fileRet, vvars, cvars, xvars >>

\* a Load that reports the S3 failure when the file loader fails too
FileLoadReturnsS3Error ==
    /\ flpc = "file"
    /\ \E out \in FileOutcomes :
          /\ fileRet' = out
          /\ flRet' = IF out.err # "nil" /\ s3Ret.err # "nil"
                      THEN [set |-> Nil, err |-> s3Ret.err]
                      ELSE out
    /\ flpc' = "returned"
    /\ UNCHANGED << fl, flPath, s3Calls, fileCalls, s3Ret, vvars, cvars, xvars >>

\* s3_loader.go:191: Load returns what the file loader returns
FileLoadReturns ==
    /\ flpc = "file"
    /\ \E out \in FileOutcomes :
          /\ fileRet' = out
          /\ flRet' = out
    /\ flpc' = "returned"
    /\ UNCHANGED << fl, flPath, s3Calls, fileCalls, s3Ret, vvars, cvars, xvars >>

\* A fallbackLoader as NewFallbackLoader builds it, before its Load is called
FallbackInit ==
    /\ \E en \in BOOLEAN, has \in BOOLEAN, prefix \in S3Prefixes :
           fl = [s3Enabled |-> en, hasS3Loader |-> has, s3Prefix |-> prefix]
    /\ flpc = "idle"
    /\ flPath = ""
    /\ s3Calls = <<>>
    /\ fileCalls = <<>>
    /\ s3Ret = NoResult
    /\ fileRet = NoResult
    /\ flRet = NoResult
    /\ config = [FilePaths |-> <<>>, MinMatchCount |-> DefaultMinMatchCount]
    /\ couponSets = <<>>
    /\ callers = {}
    /\ pc = [c \in Calls |-> "idle"]
    /\ promoCode = [c \in Calls |-> <<>>]
    /\ ctxDone = [c \in Calls |-> FALSE]
    /\ resultChan = [c \in Calls |-> <<>>]
    /\ chanCap = [c \in Calls |-> 0]
    /\ doneChan = [c \in Calls |-> FALSE]
    /\ matches = [c \in Calls |-> 0]
    /\ checked = [c \in Calls |-> 0]
    /\ ret = [c \in Calls |-> "none"]
    /\ returnSite = [c \in Calls |-> "none"]
    /\ worker = [c \in Calls |-> <<>>]
    /\ NoConstruction
    /\ NoExtras

FallbackNext ==
    \/ \E i \in 1..MaxSources : FallbackLoad(CouponFile(i))
    \/ S3LoadReturns
    \/ FileLoadReturns

SpecFallback == FallbackInit /\ [][FallbackNext]_vars

(***************************************************************************)
(* run (cmd/api/main.go:54-81): the coupon loader is chosen from the S3    *)
(* configuration and NewValidator loads the default files through it.      *)
(***************************************************************************)
\* validator.go:31-40
DefaultValidatorConfig ==
    [FilePaths |-> << "data/coupons/couponbase1.gz", "data/coupons/couponbase2.gz",
                      "data/coupons/couponbase3.gz" >>,
     MinMatchCount |-> DefaultMinMatchCount]

\* main.go:55-73: fileLoader is built; with S3 enabled NewS3Loader is called and
\* its loader used when it succeeds, the file loader otherwise
RunChooseLoader ==
    /\ app.pc = "start"
    /\ \E init \in (IF app.s3Enabled THEN {"ok", "failed"} ELSE {"none"}) :
           app' = [app EXCEPT !.pc = "loader",
                              !.s3LoaderInit = init,
                              !.couponLoader = IF init = "ok" THEN "s3Loader" ELSE "fileLoader"]
    /\ UNCHANGED << s3Has, localHas, loadCalls, vvars, cvars, outsideStartup >>

\* main.go:76-77: NewValidator(ctx, validatorConfig, couponLoader, logger) is called
RunNewValidator ==
    /\ app.pc = "loader"
    /\ NewValidator

\* s3_loader.go:51-130: s3Loader.Load(ctx, key) finds the object or does not
S3LoaderLoad(key) ==
    IF \E i \in s3Has : key = app.s3Prefix \o config.FilePaths[i]
    THEN [set |-> Ref(S3Set), err |-> "nil"]
    ELSE [set |-> Nil, err |-> "failed to get object from S3"]

\* part_004:28-86: fileLoader.Load(ctx, filePath) opens the file or does not
FileLoaderLoad(filePath) ==
    IF \E i \in localHas : filePath = config.FilePaths[i]
    THEN [set |-> Ref(LocalSet), err |-> "nil"]
    ELSE [set |-> Nil, err |-> "failed to open coupon file"]

\* validator.go:76 with loader = couponLoader: goroutine i calls
\* couponLoader.Load(ctx, path)
RunLoadReturns(i) ==
    /\ app.pc = "loader"
    /\ i \in DOMAIN loadTask
    /\ loadTask[i].pc = "load"
    /\ LET path == config.FilePaths[i]
           out == IF app.couponLoader = "s3Loader" THEN S3LoaderLoad(path)
                                                   ELSE FileLoaderLoad(path)
       IN  /\ loadCalls' = loadCalls \cup {[loader |-> app.couponLoader, key |-> path]}
           /\ loadTask' = [loadTask EXCEPT ![i] = [pc |-> "send", set |-> out.set, err |-> out.err]]
    /\ UNCHANGED << app, s3Has, localHas, nvpc, loadChan, wg, nvRet, vvars, outsideStartup >>

\* main.go:77-81: run fails when NewValidator failed, and goes on otherwise
RunCheckValidator ==
    /\ app.pc = "loader"
    /\ nvpc = "returned"
    /\ app' = IF nvRet.err # "nil"
              THEN [app EXCEPT !.pc = "failed",
                               !.err = "failed to initialize coupon validator: " \o nvRet.err]
              ELSE [app EXCEPT !.pc = "serving"]
    /\ UNCHANGED << s3Has, localHas, loadCalls, vvars, cvars, outsideStartup >>

\* run is entered with an S3 configuration, a bucket and a local directory
StartupInit ==
    /\ \E en \in BOOLEAN, prefix \in S3Prefixes :
           app = [pc |-> "start", s3Enabled |-> en, s3Prefix |-> prefix,
                  s3LoaderInit |-> "none", couponLoader |-> "none", err |-> "nil"]
    /\ s3Has \in SUBSET DOMAIN DefaultValidatorConfig.FilePaths
    /\ localHas \in SUBSET DOMAIN DefaultValidatorConfig.FilePaths
    /\ loadCalls = {}
    /\ config = DefaultValidatorConfig
    /\ couponSets = <<>>
    /\ callers = {}
    /\ pc = [c \in Calls |-> "idle"]
    /\ promoCode = [c \in Calls |-> <<>>]
    /\ ctxDone = [c \in Calls |-> FALSE]
    /\ resultChan = [c \in Calls |-> <<>>]
    /\ chanCap = [c \in Calls |-> 0]
    /\ doneChan = [c \in Calls |-> FALSE]
    /\ matches = [c \in Calls |-> 0]
    /\ checked = [c \in Calls |-> 0]
    /\ ret = [c \in Calls |-> "none"]
    /\ returnSite = [c \in Calls |-> "none"]
    /\ worker = [c \in Calls |-> <<>>]
    /\ NoConstruction
    /\ NoFallback
    /\ NoLoad
    /\ NoClose
    /\ NoWaitAll
    /\ NoSetOps
    /\ NoOrder

StartupNext ==
    \/ RunChooseLoader
    \/ RunNewValidator
    \/ \E i \in DOMAIN loadTask : RunLoadReturns(i)
    \/ \E i \in DOMAIN loadTask : LoadSend(i)
    \/ NewValidatorReturn
    \/ RunCheckValidator

SpecStartup == StartupInit /\ [][StartupNext]_vars

(***************************************************************************)
(* fileLoader.Load (part_004:28-86) and s3Loader.Load (s3_loader.go:51-130)*)
(* which share the scanner loop.  The decompressed content is a sequence   *)
(* of code points; 10 is the line feed.                                    *)
(***************************************************************************)
\* The characters of the modelled files: "A", space, line feed, carriage return
StreamChars == {65, 32, 10, 13}

Streams == UNION {[1..n -> StreamChars] : n \in 0..MaxStream}

\* unicode.IsSpace, as strings.TrimSpace uses it
IsSpace(r) ==
    \/ r \in 9..13
    \/ r \in {32, 133, 160, 5760, 8232, 8233, 8239, 8287, 12288}
    \/ r \in 8192..8202

RECURSIVE TrimLeft(_)
TrimLeft(s) == IF s # <<>> /\ IsSpace(Head(s)) THEN TrimLeft(Tail(s)) ELSE s

RECURSIVE TrimRight(_)
TrimRight(s) ==
    IF s # <<>> /\ IsSpace(s[Len(s)]) THEN TrimRight(SubSeq(s, 1, Len(s) - 1)) ELSE s

\* a trim of the leading whitespace only
TrimSpaceLeading(s) == TrimLeft(s)

\* part_004:68: strings.TrimSpace
TrimSpace(s) == TrimRight(TrimLeft(s))

\* bufio.ScanLines drops one trailing carriage return of a token
DropCR(d) == IF d # <<>> /\ d[Len(d)] = 13 THEN SubSeq(d, 1, Len(d) - 1) ELSE d

\* The position of the first line feed of data, 0 if it has none
FirstLF(data) ==
    IF \E i \in 1..Len(data) : data[i] = 10
    THEN CHOOSE i \in 1..Len(data) : data[i] = 10 /\ \A j \in 1..(i - 1) : data[j] # 10
    ELSE 0

\* part_004:57, 68: scanner.Text() after a successful scanner.Scan()
ScanText(data) ==
    IF FirstLF(data) > 0 THEN DropCR(SubSeq(data, 1, FirstLF(data) - 1)) ELSE DropCR(data)

\* part_004:57: what scanner.Scan() leaves to be read
ScanRest(data) ==
    IF FirstLF(data) > 0 THEN SubSeq(data, FirstLF(data) + 1, Len(data)) ELSE <<>>

\* The error messages of the two loaders
OpenError(kind) ==
    IF kind = "s3" THEN "failed to get object from S3" ELSE "failed to open coupon file"

GzipError(kind) ==
    IF kind = "s3" THEN "failed to create gzip reader for S3 object"
    ELSE "failed to create gzip reader"

ReadError(kind) ==
    IF kind = "s3" THEN "error reading coupon file from S3" ELSE "error reading coupon file"

LoaderReturn(set, err) ==
    /\ lpc' = "returned"
    /\ lret' = [set |-> set, err |-> err]

\* part_004:32-37, s3_loader.go:58-71: the file is opened, or the object fetched
LoaderOpen ==
    /\ lpc = "idle"
    /\ \/ lpc' = "gzip" /\ UNCHANGED lret
       \/ LoaderReturn(Nil, OpenError(lkind))
    /\ UNCHANGED << lkind, lstream, scanner, scanErr, loadSet, lineCount, lctxDone >>
    /\ UNCHANGED outsideLoad

\* part_004:40-56, s3_loader.go:74-92: the gzip reader, the empty set, the scanner
LoaderGzip ==
    /\ lpc = "gzip"
    /\ \/ /\ lpc' = "scan"
          /\ scanner' = lstream
          /\ loadSet' = NewMapCouponSet
          /\ lineCount' = 0
          /\ UNCHANGED lret
       \/ /\ LoaderReturn(Nil, GzipError(lkind))
          /\ UNCHANGED << scanner, loadSet, lineCount >>
    /\ UNCHANGED << lkind, lstream, scanErr, lctxDone >>
    /\ UNCHANGED outsideLoad

\* The underlying read fails (I/O error, corrupt gzip data, a line over the
\* buffer limit): the scanner yields what it has read so far and then stops
\* with scanner.Err() set
ReadFails ==
    /\ lpc = "scan"
    /\ ~scanErr
    /\ \E k \in 0..Len(scanner) : scanner' = SubSeq(scanner, 1, k)
    /\ scanErr' = TRUE
    /\ UNCHANGED << lpc, lkind, lstream, loadSet, lineCount, lctxDone, lret >>
    /\ UNCHANGED outsideLoad

\* part_004:57-73, s3_loader.go:93-112: one iteration of the scanner loop
LoaderScan ==
    /\ lpc = "scan"
    /\ scanner # <<>>
    /\ scanner' = ScanRest(scanner)
    /\ IF lineCount % CancelCheckEvery = 0 /\ lctxDone
       THEN /\ LoaderReturn(Nil, "context canceled")
            /\ UNCHANGED << loadSet, lineCount >>
       ELSE LET line == TrimSpace(ScanText(scanner))
            IN  /\ IF line # <<>>
                   THEN /\ loadSet' = Add(loadSet, line)
                        /\ lineCount' = lineCount + 1
                   ELSE UNCHANGED << loadSet, lineCount >>
                /\ UNCHANGED << lpc, lret >>
    /\ UNCHANGED << lkind, lstream, scanErr, lctxDone >>
    /\ UNCHANGED outsideLoad

\* a Load that returns what it has read so far together with the read error
LoaderScanEndPartial ==
    /\ lpc = "scan"
    /\ scanner = <<>>
    /\ IF scanErr THEN LoaderReturn(Ref(loadSet), ReadError(lkind))
                  ELSE LoaderReturn(Ref(loadSet), "nil")
    /\ UNCHANGED << lkind, lstream, scanner, scanErr, loadSet, lineCount, lctxDone >>
    /\ UNCHANGED outsideLoad

\* part_004:75-85, s3_loader.go:114-129: scanner.Scan() returned false
LoaderScanEnd ==
    /\ lpc = "scan"
    /\ scanner = <<>>
    /\ IF scanErr THEN LoaderReturn(Nil, ReadError(lkind))
                  ELSE LoaderReturn(Ref(loadSet), "nil")
    /\ UNCHANGED << lkind, lstream, scanner, scanErr, loadSet, lineCount, lctxDone >>
    /\ UNCHANGED outsideLoad

\* The context passed to Load is cancelled while Load runs
LoaderCancel ==
    /\ lpc \in {"idle", "gzip", "scan"}
    /\ ~lctxDone
    /\ lctxDone' = TRUE
    /\ UNCHANGED << lpc, lkind, lstream, scanner, scanErr, loadSet, lineCount, lret >>
    /\ UNCHANGED outsideLoad

\* Load is about to be called on one of the two loaders for a file of any content
LoaderInit ==
    /\ lpc = "idle"
    /\ lkind \in {"file", "s3"}
    /\ lstream \in Streams
    /\ scanner = <<>>
    /\ scanErr = FALSE
    /\ loadSet = {}
    /\ lineCount = 0
    /\ lctxDone = FALSE
    /\ lret = NoResult
    /\ config = [FilePaths |-> <<>>, MinMatchCount |-> DefaultMinMatchCount]
    /\ couponSets = <<>>
    /\ callers = {}
    /\ pc = [c \in Calls |-> "idle"]
    /\ promoCode = [c \in Calls |-> <<>>]
    /\ ctxDone = [c \in Calls |-> FALSE]
    /\ resultChan = [c \in Calls |-> <<>>]
    /\ chanCap = [c \in Calls |-> 0]
    /\ doneChan = [c \in Calls |-> FALSE]
    /\ matches = [c \in Calls |-> 0]
    /\ checked = [c \in Calls |-> 0]
    /\ ret = [c \in Calls |-> "none"]
    /\ returnSite = [c \in Calls |-> "none"]
    /\ worker = [c \in Calls |-> <<>>]
    /\ NoConstruction
    /\ NoFallback
    /\ NoStartup
    /\ NoClose
    /\ NoWaitAll
    /\ NoSetOps
    /\ NoOrder

LoaderNext ==
    \/ LoaderOpen
    \/ LoaderGzip
    \/ ReadFails
    \/ LoaderScan
    \/ LoaderScanEnd
    \/ LoaderCancel

SpecLoader == LoaderInit /\ [][LoaderNext]_vars

(***************************************************************************)
(* validator.Close (validator.go:218-226), called while Validate calls may *)
(* be in progress.                                                         *)
(***************************************************************************)
\* a Close that refuses to run twice
CloseOnce ==
    /\ Len(closeRet) < MaxCloses
    /\ IF couponSetsNil
       THEN /\ closeRet' = Append(closeRet, "validator already closed")
            /\ UNCHANGED << couponSets, couponSetsNil >>
       ELSE /\ couponSets' = <<>>
            /\ couponSetsNil' = TRUE
            /\ closeRet' = Append(closeRet, "nil")
    /\ UNCHANGED << config, callers, pc, promoCode, ctxDone, resultChan, chanCap,
                    doneChan, matches, checked, ret, returnSite, worker >>
    /\ UNCHANGED outsideClose

\* a Close that marks the validator closed and keeps its sets
CloseKeepingSets ==
    /\ Len(closeRet) < MaxCloses
    /\ couponSetsNil' = TRUE
    /\ closeRet' = Append(closeRet, "nil")
    /\ UNCHANGED << config, couponSets, callers, pc, promoCode, ctxDone, resultChan,
                    chanCap, doneChan, matches, checked, ret, returnSite, worker >>
    /\ UNCHANGED outsideClose

\* validator.go:219-226: v.couponSets = nil; return nil
Close ==
    /\ Len(closeRet) < MaxCloses
    /\ couponSets' = <<>>
    /\ couponSetsNil' = TRUE
    /\ closeRet' = Append(closeRet, "nil")
    /\ UNCHANGED << config, callers, pc, promoCode, ctxDone, resultChan, chanCap,
                    doneChan, matches, checked, ret, returnSite, worker >>
    /\ UNCHANGED outsideClose

\* A validator of no, two or three files, queried by one caller and closed
CloseInit == InitValidator({<<>>, PairSources, ExampleSources}, {DefaultMinMatchCount}, {1})

CloseNext ==
    \/ ValidateNext
    \/ Close

SpecClose == CloseInit /\ [][CloseNext]_vars

(***************************************************************************)
(* mapCouponSet (set.go) under a sequence of Add, Contains and Size calls. *)
(***************************************************************************)
\* set.go:26-29
SetAdd(code) ==
    /\ Len(added) < MaxAdds
    /\ lastAdd' = [code |-> code, present |-> Contains(coupons, code), size |-> Size(coupons),
                   contains |-> {q \in SetCodes : Contains(coupons, q)}]
    /\ coupons' = Add(coupons, code)
    /\ added' = Append(added, code)
    /\ contained' = <<>>
    /\ UNCHANGED outsideSet

\* set.go:15-19
SetContains(code) ==
    /\ Len(contained) < MaxQueries
    /\ contained' = Append(contained, [code |-> code, result |-> Contains(coupons, code)])
    /\ UNCHANGED << coupons, added, lastAdd >>
    /\ UNCHANGED outsideSet

\* A set as NewMapCouponSet returns it
SetInit ==
    /\ NoSetOps
    /\ config = [FilePaths |-> <<>>, MinMatchCount |-> DefaultMinMatchCount]
    /\ couponSets = <<>>
    /\ callers = {}
    /\ pc = [c \in Calls |-> "idle"]
    /\ promoCode = [c \in Calls |-> <<>>]
    /\ ctxDone = [c \in Calls |-> FALSE]
    /\ resultChan = [c \in Calls |-> <<>>]
    /\ chanCap = [c \in Calls |-> 0]
    /\ doneChan = [c \in Calls |-> FALSE]
    /\ matches = [c \in Calls |-> 0]
    /\ checked = [c \in Calls |-> 0]
    /\ ret = [c \in Calls |-> "none"]
    /\ returnSite = [c \in Calls |-> "none"]
    /\ worker = [c \in Calls |-> <<>>]
    /\ NoConstruction
    /\ NoFallback
    /\ NoStartup
    /\ NoLoad
    /\ NoClose
    /\ NoWaitAll
    /\ NoOrder

SetNext ==
    \E code \in SetCodes :
        \/ SetAdd(code)
        \/ SetContains(code)

SpecSet == SetInit /\ [][SetNext]_vars

(***************************************************************************)
(* orderService.CreateOrder (order_service.go:40-145, 181-207) over its    *)
(* collaborators: the validator, the product and order repositories and    *)
(* the transaction, each of which returns nil or an error.                 *)
(***************************************************************************)
\* The items a request can hold
ItemChoices ==
    { [ProductID |-> "P001", Quantity |-> 1],
      [ProductID |-> "", Quantity |-> 1],
      [ProductID |-> "P001", Quantity |-> 0] }

\* The values of OrderRequest.CouponCode: nil, "" and two codes
CouponChoices == {Nil, Ref(CodeEmpty), Ref(CodeX), Ref(CodeShort)}

OrderRequests ==
    {[isNil |-> TRUE, CouponCode |-> Nil, Items |-> <<>>]} \cup
    {[isNil |-> FALSE, CouponCode |-> cc, Items |-> items] :
        cc \in CouponChoices,
        items \in UNION {[1..n -> ItemChoices] : n \in 0..MaxItems}}

\* order_service.go:191-204: the error of the first invalid item from index i on
RECURSIVE ItemsError(_, _)
ItemsError(items, i) ==
    IF i > Len(items) THEN "nil"
    ELSE IF items[i].ProductID = "" THEN "item " \o ToString(i - 1) \o ": product ID is required"
    ELSE IF items[i].Quantity <= 0 THEN "ErrInvalidQuantity"
    ELSE ItemsError(items, i + 1)

\* order_service.go:181-207
validateOrderRequest(r) ==
    IF r.isNil THEN "order request is nil"
    ELSE IF Len(r.Items) = 0 THEN "order must contain at least one item"
    ELSE ItemsError(r.Items, 1)

\* a condition that validates an empty coupon code too
CouponProvidedNonNil(r) == r.CouponCode # Nil

\* order_service.go:47
CouponProvided(r) == r.CouponCode # Nil /\ Deref(r.CouponCode) # <<>>

\* What the collaborators can return
ValidateErrors == {"nil", "ErrInvalidPromoCode", "ErrInvalidPromoLength"}

RepoErrors == {"nil", "ErrProductNotFound", "connection refused"}

\* CreateOrder returns; the deferred function rolls the transaction back when
\* one was begun and err is not nil (order_service.go:80-86)
OrderReturn(called, resp, errVar, err) ==
    /\ trace' = IF "BeginTx" \in {trace[k] : k \in DOMAIN trace} /\ opc # "BeginTx"
                   /\ errVar # "nil"
                THEN trace \o called \o << "Rollback" >>
                ELSE trace \o called
    /\ oerr' = errVar
    /\ oret' = [resp |-> resp, err |-> err]
    /\ opc' = "returned"

\* CreateOrder goes on to its next call
OrderGoOn(called, next) ==
    /\ trace' = trace \o called
    /\ opc' = next
    /\ UNCHANGED << oerr, oret >>

\* order_service.go:41-47: the request is validated, and the coupon examined
OrderValidateRequest ==
    /\ opc = "validateOrderRequest"
    /\ LET err == validateOrderRequest(req)
       IN  IF err # "nil" THEN OrderReturn(<< "validateOrderRequest" >>, "nil", "nil", err)
           ELSE IF CouponProvided(req) THEN OrderGoOn(<< "validateOrderRequest" >>, "Validate")
           ELSE OrderGoOn(<< "validateOrderRequest" >>, "ValidateProductsExist")
    /\ UNCHANGED << req, vret >>
    /\ UNCHANGED outsideOrder

\* order_service.go:48-56
OrderValidateCoupon ==
    /\ opc = "Validate"
    /\ \E err \in ValidateErrors :
          /\ vret' = err
          /\ IF err # "nil" THEN OrderReturn(<< "Validate" >>, "nil", "nil", err)
             ELSE OrderGoOn(<< "Validate" >>, "ValidateProductsExist")
    /\ UNCHANGED req
    /\ UNCHANGED outsideOrder

\* order_service.go:58-70
OrderValidateProducts ==
    /\ opc = "ValidateProductsExist"
    /\ \E err \in RepoErrors :
          IF err # "nil" THEN OrderReturn(<< "ValidateProductsExist" >>, "nil", "nil", err)
          ELSE OrderGoOn(<< "ValidateProductsExist" >>, "BeginTx")
    /\ UNCHANGED << req, vret >>
    /\ UNCHANGED outsideOrder

\* order_service.go:72-77
OrderBeginTx ==
    /\ opc = "BeginTx"
    /\ \E err \in RepoErrors :
          IF err # "nil"
          THEN OrderReturn(<< "BeginTx" >>, "nil", err, "failed to create order: " \o err)
          ELSE OrderGoOn(<< "BeginTx" >>, "CreateOrder")
    /\ UNCHANGED << req, vret >>
    /\ UNCHANGED outsideOrder

\* order_service.go:88-126: the order, its items and the commit; the first of
\* the three calls that fails ends CreateOrder
OrderWrite(call, next, message) ==
    /\ opc = call
    /\ \E err \in RepoErrors :
          IF err # "nil"
          THEN OrderReturn(<< call >>, "nil", err, message \o err)
          ELSE OrderGoOn(<< call >>, next)
    /\ UNCHANGED << req, vret >>
    /\ UNCHANGED outsideOrder

\* order_service.go:128-144
OrderGetProducts ==
    /\ opc = "GetByIDs"
    /\ \E err \in RepoErrors :
          IF err # "nil"
          THEN OrderReturn(<< "GetByIDs" >>, "nil", err,
                           "failed to retrieve product details: " \o err)
          ELSE OrderReturn(<< "GetByIDs" >>, "OrderResponse", "nil", "nil")
    /\ UNCHANGED << req, vret >>
    /\ UNCHANGED outsideOrder

\* CreateOrder is called with a request
OrderInit ==
    /\ req \in OrderRequests
    /\ opc = "validateOrderRequest"
    /\ trace = <<>>
    /\ vret = "none"
    /\ oerr = "nil"
    /\ oret = [resp |-> "nil", err |-> "nil"]
    /\ config = [FilePaths |-> <<>>, MinMatchCount |-> DefaultMinMatchCount]
    /\ couponSets = <<>>
    /\ callers = {}
    /\ pc = [c \in Calls |-> "idle"]
    /\ promoCode = [c \in Calls |-> <<>>]
    /\ ctxDone = [c \in Calls |-> FALSE]
    /\ resultChan = [c \in Calls |-> <<>>]
    /\ chanCap = [c \in Calls |-> 0]
    /\ doneChan = [c \in Calls |-> FALSE]
    /\ matches = [c \in Calls |-> 0]
    /\ checked = [c \in Calls |-> 0]
    /\ ret = [c \in Calls |-> "none"]
    /\ returnSite = [c \in Calls |-> "none"]
    /\ worker = [c \in Calls |-> <<>>]
    /\ NoConstruction
    /\ NoFallback
    /\ NoStartup
    /\ NoLoad
    /\ NoClose
    /\ NoWaitAll
    /\ NoSetOps

OrderNext ==
    \/ OrderValidateRequest
    \/ OrderValidateCoupon
    \/ OrderValidateProducts
    \/ OrderBeginTx
    \/ OrderWrite("CreateOrder", "CreateOrderItems", "failed to create order: ")
    \/ OrderWrite("CreateOrderItems", "Commit", "failed to create order items: ")
    \/ OrderWrite("Commit", "GetByIDs", "failed to create order: ")
    \/ OrderGetProducts

SpecOrder == OrderInit /\ [][OrderNext]_vars

\* What Validate of the part_008 validator leaves alone
outsideWaitAll == << vvars, cvars, fvars, avars, lvars, kvars, svars, ovars >>

\* part_008:127-151 and 158-164: the length check, the read lock, then the
\* channel and one goroutine per coupon set, each counted in the WaitGroup
WaitAllValidate(code) ==
    /\ wpc = "idle"
    /\ wcode' = code
    /\ IF InvalidLength(code)
       THEN /\ wpc' = "done"
            /\ wret' = "ErrInvalidPromoLength"
            /\ UNCHANGED << wworker, wchan, wwg >>
       ELSE /\ wpc' = "wait"
            /\ wworker' = [i \in 1..Len(couponSets) |->
                              [pc |-> "start", s |-> couponSets[i], found |-> FALSE]]
            /\ wchan' = <<>>
            /\ wwg' = Len(couponSets)
            /\ UNCHANGED wret
    /\ UNCHANGED wctxDone
    /\ UNCHANGED outsideWaitAll

\* part_008:168-176: the goroutine's select on ctx.Done(), then the lookup
WaitAllLookup(i) ==
    /\ i \in DOMAIN wworker
    /\ wworker[i].pc = "start"
    /\ wworker' = [wworker EXCEPT ![i] =
                      [pc |-> "send", s |-> @.s,
                       found |-> IF wctxDone THEN FALSE ELSE Contains(@.s, wcode)]]
    /\ UNCHANGED << wpc, wcode, wctxDone, wchan, wwg, wret >>
    /\ UNCHANGED outsideWaitAll

\* part_008:166, 171, 177: the send, then the deferred wg.Done()
WaitAllSend(i) ==
    /\ i \in DOMAIN wworker
    /\ wworker[i].pc = "send"
    /\ Len(wchan) < Len(wworker)
    /\ wchan' = Append(wchan, wworker[i].found)
    /\ wworker' = [wworker EXCEPT ![i].pc = "exit"]
    /\ wwg' = wwg - 1
    /\ UNCHANGED << wpc, wcode, wctxDone, wret >>
    /\ UNCHANGED outsideWaitAll

\* a countMatches that counts what has arrived without waiting for the rest
WaitAllReturnEarly ==
    /\ wpc = "wait"
    /\ wwg < Len(wworker) \/ wwg = 0
    /\ wret' = ValidateResult(Len(SelectSeq(wchan, LAMBDA found : found)))
    /\ wchan' = <<>>
    /\ wpc' = "done"
    /\ UNCHANGED << wcode, wctxDone, wworker, wwg >>
    /\ UNCHANGED outsideWaitAll

\* part_008:181-193, 140-156: wg.Wait() returns, the channel is closed and
\* every result counted; Validate compares the count with 2
WaitAllReturn ==
    /\ wpc = "wait"
    /\ wwg = 0
    /\ wret' = ValidateResult(Len(SelectSeq(wchan, LAMBDA found : found)))
    /\ wchan' = <<>>
    /\ wpc' = "done"
    /\ UNCHANGED << wcode, wctxDone, wworker, wwg >>
    /\ UNCHANGED outsideWaitAll

\* One set list given to both validators, one code validated by the part_008
\* validator and then by the validator of validator.go; no context is cancelled
BothInit == InitValidator(SetLists, {DefaultMinMatchCount}, {1})

BothNext ==
    \/ \E code \in QueryCodes : WaitAllValidate(code)
    \/ \E i \in DOMAIN wworker : WaitAllLookup(i)
    \/ \E i \in DOMAIN wworker : WaitAllSend(i)
    \/ WaitAllReturn
    \/ wpc = "done" /\ Validate(1, wcode)
    \/ \E i \in DOMAIN worker[1] : WorkerStep(1, i)
    \/ Receive(1)
    \/ LoopEnd(1)

SpecBoth == BothInit /\ [][BothNext]_vars

(***************************************************************************)
(* What the claims speak of.                                               *)
(***************************************************************************)
\* The number of the validator's sets that store exactly this code
StoredIn(code) == Cardinality({i \in DOMAIN couponSets : code \in couponSets[i]})

\* Upper-case ASCII letters folded to lower case
Fold(r) == IF r >= 65 /\ r <= 90 THEN r + 32 ELSE r

\* a and b differ at most in letter case
SameLetters(a, b) == Len(a) = Len(b) /\ \A i \in 1..Len(a) : Fold(a[i]) = Fold(b[i])

Returned(c) == pc[c] = "done"

\* C1: with 3 loaded sources and the default quorum of 2, a code of length
\* 8..10 validated under a context that is never cancelled is Valid (nil) if at
\* least 2 of the 3 sets contain it and InvalidCode otherwise, whichever sets
\* match and in whatever order the lookups report.
C1_QuorumOfThree ==
    \A c \in Calls :
        ( /\ Returned(c)
          /\ ~ctxDone[c]
          /\ Len(couponSets) = 3
          /\ config.MinMatchCount = 2
          /\ GoLen(promoCode[c]) \in 8..10 )
        => ret[c] = IF StoredIn(promoCode[c]) >= 2 THEN "nil" ELSE "ErrInvalidPromoCode"

\* Validate("Z") = Valid on sources A=[X,Y], B=[X,Z], C=[Z]
C1_Witness ==
    \E c \in Calls :
        /\ Returned(c) /\ ~ctxDone[c]
        /\ couponSets = ExampleSources
        /\ promoCode[c] = CodeZ
        /\ ret[c] = "nil"

\* C2: a validator constructed with MinMatchCount = q returns Valid for an
\* in-range code exactly when at least q of its sets contain the code.
C2_ConfiguredQuorumHonoured ==
    \A c \in Calls :
        ( /\ Returned(c) /\ ~ctxDone[c]
          /\ config.MinMatchCount \in 1..Len(couponSets)
          /\ GoLen(promoCode[c]) \in 8..10 )
        => (ret[c] = "nil" <=> StoredIn(promoCode[c]) >= config.MinMatchCount)

\* C3: a call that returns because the context was cancelled before the quorum
\* was determined returns an outcome other than InvalidCode and Valid, and a code
\* present in enough sources is never reported as InvalidCode.
C3_CancelledIsDistinguishable ==
    \A c \in Calls :
        /\ (Returned(c) /\ returnSite[c] = "cancelled")
               => ret[c] \notin {"ErrInvalidPromoCode", "nil"}
        /\ (Returned(c) /\ StoredIn(promoCode[c]) >= 2 /\ GoLen(promoCode[c]) \in 8..10)
               => ret[c] # "ErrInvalidPromoCode"

\* C4: a code of fewer than 8 or more than 10 bytes is rejected with
\* InvalidLength before any concurrent work (no channel, no lookup goroutine, so
\* no Contains), and a code of 8, 9 or 10 bytes is never rejected for its length.
C4_LengthRejectedBeforeLookup ==
    \A c \in Calls :
        pc[c] # "idle" =>
            IF GoLen(promoCode[c]) < 8 \/ GoLen(promoCode[c]) > 10
            THEN /\ Returned(c)
                 /\ ret[c] = "ErrInvalidPromoLength"
                 /\ worker[c] = <<>>
                 /\ chanCap[c] = 0 /\ resultChan[c] = <<>>
            ELSE ret[c] # "ErrInvalidPromoLength"

C4_Witness ==
    \E c \in Calls :
        /\ Returned(c)
        /\ promoCode[c] = CodeShort
        /\ Len(couponSets) = 3
        /\ ret[c] = "ErrInvalidPromoLength"
        /\ worker[c] = <<>>

\* C5: once a result has been received and matches so far plus the lookups not
\* yet reported is below the validator's quorum, Validate has returned
\* InvalidCode: it is never found waiting for a further result in such a state.
C5_EarlyTerminationOnImpossibility ==
    \A c \in Calls :
        ( /\ pc[c] # "idle"
          /\ checked[c] > 0
          /\ config.MinMatchCount \in 1..Len(couponSets)
          /\ matches[c] + (Len(couponSets) - checked[c]) < config.MinMatchCount )
        => /\ Returned(c)
           /\ ret[c] = "ErrInvalidPromoCode"

\* C6: once the context is cancelled during the lookup phase, Validate can
\* return at once, whatever the result channel holds, and it does return,
\* whether or not any lookup goroutine ever reports.
C6_CancelledCallReturns ==
    \A c \in Calls :
        /\ [](pc[c] = "collect" /\ ctxDone[c] => ENABLED (ReceiveCancelled(c) \/ LoopEnd(c)))
        /\ (pc[c] = "collect" /\ ctxDone[c]) ~> Returned(c)

\* Validate has returned from the ctx.Done() case with no result received and
\* no lookup goroutine having run
C6_Witness ==
    \E c \in Calls :
        /\ Returned(c) /\ returnSite[c] = "cancelled"
        /\ Len(couponSets) = 3
        /\ checked[c] = 0 /\ resultChan[c] = <<>>
        /\ \A i \in DOMAIN worker[c] : worker[c][i].pc = "start"

\* C7: construction is all-or-nothing: if the load of any configured source
\* failed, NewValidator returns no validator and a non-nil error; it returns a
\* validator only when every load succeeded, and the validator then holds
\* exactly as many sets as files were configured.
C7_ConstructionAllOrNothing ==
    nvpc = "returned" =>
        LET failed == {i \in DOMAIN loadTask : loadTask[i].err # "nil"}
        IN  /\ failed # {} => (nvRet.v = "nil" /\ nvRet.err # "nil")
            /\ nvRet.v # "nil" =>
                   /\ failed = {}
                   /\ nvRet.err = "nil"
                   /\ \A i \in DOMAIN loadTask : loadTask[i].pc = "done"
                   /\ Len(couponSets) = Len(config.FilePaths)

\* Of three configured files the second alone failed to load, and NewValidator
\* returned nil and an error
C7_Witness ==
    /\ nvpc = "returned"
    /\ Len(config.FilePaths) = 3
    /\ {i \in DOMAIN loadTask : loadTask[i].err # "nil"} = {2}
    /\ nvRet.v = "nil" /\ nvRet.err # "nil"

\* The outcome of Validate(code) when it runs alone on the validator
Alone(code) ==
    IF GoLen(code) < 8 \/ GoLen(code) > 10 THEN "ErrInvalidPromoLength"
    ELSE IF StoredIn(code) >= 2 THEN "nil" ELSE "ErrInvalidPromoCode"

\* C8: concurrent Validate calls on one validator do not interfere: each call
\* returns the outcome of its own code, and its result channel holds only what
\* its own lookups found.
C8_NoCrossContamination ==
    \A c \in Calls :
        /\ Returned(c) => ret[c] = Alone(promoCode[c])
        /\ \A k \in DOMAIN resultChan[c] :
               \E i \in DOMAIN worker[c] :
                   /\ worker[c][i].pc = "exit"
                   /\ resultChan[c][k] = (promoCode[c] \in worker[c][i].s)
        /\ checked[c] + Len(resultChan[c])
               <= Cardinality({i \in DOMAIN worker[c] : worker[c][i].pc = "exit"})

\* Two calls have returned, one Valid and one InvalidCode, and their lookups
\* were in flight at the same time
C8_Witness ==
    \E c, d \in Calls :
        /\ Returned(c) /\ promoCode[c] = CodeX /\ ret[c] = "nil"
        /\ Returned(d) /\ promoCode[d] = CodeY /\ ret[d] = "ErrInvalidPromoCode"

C10_FallbackChain ==
    (fl.s3Enabled /\ fl.hasS3Loader /\ flpc # "idle") =>
        /\ s3Calls = << fl.s3Prefix \o flPath >>
        /\ flpc = "s3" => fileCalls = <<>>
        /\ (flpc = "returned" /\ s3Ret.err = "nil") =>
               /\ flRet = [set |-> s3Ret.set, err |-> "nil"]
               /\ fileCalls = <<>>
        /\ (flpc = "file") => (s3Ret.err # "nil" /\ fileCalls = << flPath >>)
        /\ (flpc = "returned" /\ s3Ret.err # "nil") =>
               /\ fileCalls = << flPath >>
               /\ flRet = fileRet
               /\ fileRet.err # "nil" => (flRet.err = fileRet.err /\ flRet.set = Nil)

\* Both loaders failed, with different errors, under a non-empty prefix
C10_Witness ==
    /\ fl.s3Enabled /\ fl.hasS3Loader /\ fl.s3Prefix = "coupons/"
    /\ flpc = "returned"
    /\ s3Calls = << "coupons/couponbase1.gz" >>
    /\ fileCalls = << "couponbase1.gz" >>
    /\ s3Ret.err = "failed to get object from S3"
    /\ flRet = [set |-> Nil, err |-> "failed to open coupon file"]

\* C11: when S3 is disabled (s3Enabled = false) or the S3 loader is nil, the S3
\* loader is never invoked, the file loader is invoked once with the original
\* path, and Load returns exactly what the file loader returns.
C11_DisabledPrimarySkipped ==
    (~(fl.s3Enabled /\ fl.hasS3Loader) /\ flpc # "idle") =>
        /\ s3Calls = <<>>
        /\ s3Ret = NoResult
        /\ flpc # "s3"
        /\ fileCalls = << flPath >>
        /\ flpc = "returned" => flRet = fileRet

\* An S3 loader is present but disabled by configuration, and Load returned
\* the file loader's set without any S3 call
C11_Witness ==
    /\ ~fl.s3Enabled /\ fl.hasS3Loader
    /\ flpc = "returned"
    /\ s3Calls = <<>>
    /\ fileCalls = << "couponbase2.gz" >>
    /\ flRet = [set |-> Ref(LocalSet), err |-> "nil"]

\* C12: at startup with S3 enabled and the S3 loader initialised, every S3 key
\* used is S3_PREFIX + filename, a file whose S3 load failed is then loaded
\* from the local file system, and startup succeeds whenever every local file
\* is loadable.
C12_StartupFallsBackToLocal ==
    (app.s3Enabled /\ app.s3LoaderInit = "ok") =>
        /\ \A call \in loadCalls :
               call.loader = "s3Loader" =>
                   \E i \in DOMAIN config.FilePaths :
                       call.key = app.s3Prefix \o config.FilePaths[i]
        /\ \A i \in DOMAIN loadTask :
               (loadTask[i].pc # "load" /\ i \notin s3Has) =>
                   [loader |-> "fileLoader", key |-> config.FilePaths[i]] \in loadCalls
        /\ (app.pc \in {"failed", "serving"} /\ localHas = DOMAIN config.FilePaths)
               => app.pc = "serving"

\* The lines of a stream: the maximal runs <<a, b>> of positions without a
\* line feed (b = a - 1 for an empty line)
LineSpans(st) ==
    {sp \in (1..(Len(st) + 1)) \X (0..Len(st)) :
        /\ sp[1] <= sp[2] + 1
        /\ sp[1] = 1 \/ st[sp[1] - 1] = 10
        /\ sp[2] = Len(st) \/ st[sp[2] + 1] = 10
        /\ \A k \in sp[1]..sp[2] : st[k] # 10}

\* The strings that remain of the lines of a stream once the whitespace at
\* both ends is removed, those that are not empty
TrimmedLines(st) ==
    {SubSeq(st, ij[1], ij[2]) : ij \in
        {ij \in (1..Len(st)) \X (1..Len(st)) :
            \E sp \in LineSpans(st) :
                /\ sp[1] <= ij[1] /\ ij[1] <= ij[2] /\ ij[2] <= sp[2]
                /\ ~IsSpace(st[ij[1]]) /\ ~IsSpace(st[ij[2]])
                /\ \A k \in sp[1]..(ij[1] - 1) : IsSpace(st[k])
                /\ \A k \in (ij[2] + 1)..sp[2] : IsSpace(st[k])}}

C14_NoPartialSet ==
    lpc = "returned" =>
        /\ lret.err # "nil" => lret.set = Nil
        /\ lret.set # Nil => lret.err = "nil"
        /\ lret.err = "nil" => lret.set # Nil

\* A read error after a code had been inserted into the set
C14_Witness ==
    /\ lpc = "returned"
    /\ loadSet # {}
    /\ scanErr
    /\ lret = [set |-> Nil, err |-> ReadError(lkind)]

\* The configured files whose load failed
FailedLoads == {i \in DOMAIN loadTask : loadTask[i].err # "nil"}

\* C15: when one or more loads fail, the error NewValidator returns wraps the
\* load error of a failing source and names that source's path, and it is the
\* failing source of lowest configuration index, in whatever order the load
\* goroutines completed.
C15_LowestIndexFailureReported ==
    (nvpc = "returned" /\ FailedLoads # {}) =>
        \E i \in FailedLoads :
            /\ \A j \in FailedLoads : i <= j
            /\ nvRet.err = "failed to load coupon file " \o config.FilePaths[i]
                               \o ": " \o loadTask[i].err
            /\ loadTask[i].err = "failed to open coupon file " \o config.FilePaths[i]

\* The second and third of three files failed and the error is the second's
C15_Witness ==
    /\ nvpc = "returned"
    /\ FailedLoads = {2, 3}
    /\ nvRet.err = "failed to load coupon file couponbase2.gz: "
                       \o "failed to open coupon file couponbase2.gz"

\* C16: every call of Close, the first or a repeated one and whatever the
\* validator is doing, returns a nil error and leaves the validator without its
\* set list; after a second Close the validator is in the same closed state as
\* after the first.
C16_CloseIdempotent ==
    /\ \A k \in DOMAIN closeRet : closeRet[k] = "nil"
    /\ closeRet # <<>> => (couponSetsNil /\ couponSets = <<>>)
    /\ closeRet = <<>> => ~couponSetsNil

\* Close was called twice, the first time while a Validate call was collecting
\* results
C16_Witness ==
    /\ closeRet = << "nil", "nil" >>
    /\ couponSetsNil
    /\ \E c \in Calls : Returned(c) /\ returnSite[c] = "loopEnd" /\ checked[c] = 1

\* C17: for every sequence of Add calls Size() is the number of distinct codes
\* added; adding a code already present leaves Size() and the result of every
\* Contains query as they were; and two Contains calls for one code on a set not
\* modified in between return the same result.
C17_AddIdempotent ==
    /\ Size(coupons) = Cardinality({added[k] : k \in DOMAIN added})
    /\ lastAdd.present =>
           /\ Size(coupons) = lastAdd.size
           /\ \A q \in SetCodes : Contains(coupons, q) <=> q \in lastAdd.contains
    /\ \A i, j \in DOMAIN contained :
           contained[i].code = contained[j].code => contained[i].result = contained[j].result
    /\ \A i \in DOMAIN contained :
           contained[i].result <=> \E k \in DOMAIN added : added[k] = contained[i].code

\* "ABCDEFGH" was added twice and another code once: the size is 2
C17_Witness ==
    /\ added = << CodeX, CodeY, CodeX >>
    /\ lastAdd.present /\ lastAdd.size = 2
    /\ Size(coupons) = 2
    /\ contained = << [code |-> CodeX, result |-> TRUE], [code |-> CodeX, result |-> TRUE] >>

\* The positions of a call in CreateOrder's trace
Positions(call) == {k \in DOMAIN trace : trace[k] = call}

\* The request is one that request validation accepts
AcceptedRequest ==
    /\ ~req.isNil
    /\ req.Items # <<>>
    /\ \A k \in DOMAIN req.Items : req.Items[k].ProductID # "" /\ req.Items[k].Quantity > 0

\* The request carries a coupon code that is neither nil nor empty
CarriesCoupon == \E code \in req.CouponCode : code # <<>>

\* Validate is called at most once, after request validation and before
\* ValidateProductsExist and BeginTx; an error of Validate is what CreateOrder
\* returns, with neither ValidateProductsExist nor BeginTx called
ValidateBeforeDatabase ==
    /\ Cardinality(Positions("Validate")) <= 1
    /\ \A v \in Positions("Validate") :
           /\ \E r \in Positions("validateOrderRequest") : r < v
           /\ \A d \in Positions("ValidateProductsExist") \cup Positions("BeginTx") : v < d
    /\ vret \notin {"none", "nil"} =>
           /\ opc = "returned"
           /\ oret = [resp |-> "nil", err |-> vret]
           /\ Positions("ValidateProductsExist") = {}
           /\ Positions("BeginTx") = {}

\* C18 as stated: Validate is invoked iff the request carries a non-nil,
\* non-empty coupon code, after request validation and before
\* ValidateProductsExist and BeginTx, and its error is returned unchanged with
\* no database call made.
C18_ValidateIffCoupon ==
    /\ opc = "returned" => (Positions("Validate") # {} <=> CarriesCoupon)
    /\ ValidateBeforeDatabase

\* C18, amended: for a request that passes request validation, Validate is
\* invoked iff the request carries a non-nil, non-empty coupon code (a request
\* that fails request validation never reaches Validate); it is invoked after
\* request validation and before ValidateProductsExist and BeginTx, and when it
\* returns an error CreateOrder returns that same error with neither
\* ValidateProductsExist nor BeginTx called.
C18_PromoValidationBeforeDatabase ==
    /\ opc \notin {"validateOrderRequest", "Validate"} =>
           (Positions("Validate") # {} <=> (AcceptedRequest /\ CarriesCoupon))
    /\ opc = "Validate" => (AcceptedRequest /\ CarriesCoupon /\ Positions("Validate") = {})
    /\ ValidateBeforeDatabase

\* A valid request with a coupon the validator rejected: CreateOrder returned
\* the validator's error after two calls
C18_Witness ==
    /\ opc = "returned"
    /\ req.CouponCode = Ref(CodeX)
    /\ trace = << "validateOrderRequest", "Validate" >>
    /\ oret = [resp |-> "nil", err |-> "ErrInvalidPromoCode"]

\* C19: the length check counts characters: a code of 8, 9 or 10 characters,
\* multi-byte characters included, is never rejected with InvalidLength, and a
\* code of fewer than 8 or more than 10 characters is rejected with
\* InvalidLength.
C19_LengthInCharacters ==
    \A c \in Calls :
        pc[c] # "idle" =>
            IF Len(promoCode[c]) \in 8..10
            THEN ret[c] # "ErrInvalidPromoLength"
            ELSE Returned(c) /\ ret[c] = "ErrInvalidPromoLength"

\* C20: as soon as the running count of positive results reaches the
\* validator's quorum, Validate has returned Valid without receiving a further
\* result, whatever the lookups that have not reported do, and the call's
\* doneChan is closed on return.
C20_EarlyTerminationOnSuccess ==
    \A c \in Calls :
        /\ ( /\ pc[c] # "idle"
             /\ checked[c] > 0
             /\ config.MinMatchCount \in 1..Len(couponSets)
             /\ matches[c] >= config.MinMatchCount )
           => /\ Returned(c)
              /\ ret[c] = "nil"
              /\ matches[c] = config.MinMatchCount
        /\ (Returned(c) /\ returnSite[c] # "length") => doneChan[c]

\* C21: a Validate call that passes the length check dispatches exactly one
\* lookup goroutine per set; its result channel, of capacity N, never holds more
\* than N results, and a goroutine ready to send always finds room; and once
\* Validate has returned, by whatever path, every goroutine it dispatched
\* terminates.
C21_NoLookupLeak ==
    \A c \in Calls :
        /\ [](pc[c] = "collect" =>
                 (Len(worker[c]) = Len(couponSets) /\ chanCap[c] = Len(couponSets)))
        /\ [](Len(resultChan[c]) <= chanCap[c])
        /\ [](\A i \in DOMAIN worker[c] :
                 worker[c][i].pc = "send" => Len(resultChan[c]) < chanCap[c])
        /\ (Returned(c) ~> (\A i \in DOMAIN worker[c] : worker[c][i].pc = "exit"))

\* Validate returned Valid at the second hit of three while the third lookup
\* had its result in hand and the first two results were received
C21_Witness ==
    \E c \in Calls :
        /\ Returned(c) /\ returnSite[c] = "quorum"
        /\ Len(worker[c]) = 3
        /\ \E i \in DOMAIN worker[c] : worker[c][i].pc = "send"

\* C22: on success the validator's set at index i is the set the load of
\* FilePaths[i] returned, for every i, in whatever order the load goroutines
\* completed.
C22_SourceOrderPreserved ==
    (nvpc = "returned" /\ nvRet.err = "nil") =>
        /\ Len(couponSets) = Len(config.FilePaths)
        /\ \A i \in DOMAIN couponSets :
               /\ Ref(couponSets[i]) = loadTask[i].set
               /\ couponSets[i] = SourceSet(i)

\* Three files loaded, each set at the index of its file
C22_Witness ==
    /\ nvpc = "returned" /\ nvRet.v = "validator"
    /\ couponSets = << SourceSet(1), SourceSet(2), SourceSet(3) >>

\* C23: NewValidator returns only after all N load goroutines have returned and
\* published, on the failure path as on the success path; a goroutine ready to
\* publish always finds room in the channel; and if every Load call returns,
\* NewValidator returns.
C23_WaitsForAllLoads ==
    /\ [](nvpc = "returned" =>
             (wg = 0 /\ \A i \in DOMAIN loadTask : loadTask[i].pc = "done"))
    /\ [](\A i \in DOMAIN loadTask :
             loadTask[i].pc = "send" => Len(loadChan) < Len(config.FilePaths))
    /\ [](nvpc = "wait" => Len(loadTask) = Len(config.FilePaths))
    /\ (nvpc = "wait" ~> nvpc = "returned")

\* The first load failed, the other two succeeded after it, and NewValidator
\* returned the error once all three had published
C23_Witness ==
    /\ nvpc = "returned" /\ nvRet.v = "nil"
    /\ Len(loadTask) = 3
    /\ FailedLoads = {1}
    /\ \A i \in DOMAIN loadTask : loadTask[i].pc = "done"

\* One iteration of the scanner loop: a line is taken from the stream
LineRead ==
    /\ lpc = "scan" /\ scanner # <<>>
    /\ scanner' = ScanRest(scanner) /\ scanErr' = scanErr

\* C24: Load observes cancellation at least once every CancelCheckEvery lines
\* read, whatever the lines contain, and a context cancelled before the first
\* line is read makes Load return the cancellation error and a nil set. The
\* check runs when the pacing count is a multiple of CancelCheckEvery, so the
\* bound on the lines between two checks is the statement that between checks
\* every line read, blank or not, advances the pacing count by one.
C24_CancellationWithinPeriod ==
    /\ [][(LineRead /\ lineCount % CancelCheckEvery # 0)
              => lineCount' = lineCount + 1]_vars
    /\ [][(LineRead /\ lctxDone /\ scanner = lstream)
              => (lpc' = "returned" /\ lret' = [set |-> Nil, err |-> "context canceled"])]_vars

\* C25: no step of any Validate call, whatever the call's outcome, changes the
\* set list, its length or order, or the contents of a set, and a lookup works
\* on the validator's own set; so two calls with the same code whose contexts
\* are not cancelled return the same outcome.
C25_ValidateReadOnly ==
    /\ [][couponSets' = couponSets]_vars
    /\ [](\A c \in Calls : \A i \in DOMAIN worker[c] :
             i \in DOMAIN couponSets /\ worker[c][i].s = couponSets[i])
    /\ [](\A c, d \in Calls :
             (/\ Returned(c) /\ Returned(d)
              /\ promoCode[c] = promoCode[d]
              /\ ~ctxDone[c] /\ ~ctxDone[d]) => ret[c] = ret[d])

\* A valid code validated twice, a second time after a cancelled call of it
C25_Witness ==
    /\ Len(couponSets) = 3
    /\ Returned(1) /\ Returned(2)
    /\ promoCode[1] = CodeX /\ promoCode[2] = CodeX
    /\ ctxDone[1] /\ ret[1] = "ErrInvalidPromoCode"
    /\ ~ctxDone[2] /\ ret[2] = "nil"

\* C26: Validate returns Valid only if the code's length is in range and at
\* least RequiredMatches of the validator's sets contain the code, in every
\* execution: with the context cancelled at any point, with the lookups
\* reporting in any order or not at all; a call that returns by the
\* cancellation path never returns Valid.
C26_NoFalsePositive ==
    \A c \in Calls :
        /\ (Returned(c) /\ ret[c] = "nil") =>
               /\ StoredIn(promoCode[c]) >= RequiredMatches
               /\ ~InvalidLength(promoCode[c])
               /\ matches[c] >= RequiredMatches
               /\ matches[c] <= StoredIn(promoCode[c])
        /\ (Returned(c) /\ returnSite[c] = "cancelled") => ret[c] # "nil"
        /\ matches[c] <= checked[c]

\* Valid although the context was cancelled during the call: two of the three
\* sets hold the code and both had reported
C26_Witness ==
    \E c \in Calls :
        /\ Returned(c) /\ ret[c] = "nil" /\ ctxDone[c]
        /\ Len(couponSets) = 3 /\ StoredIn(promoCode[c]) = 2
        /\ \E i \in DOMAIN worker[c] : worker[c][i].pc = "exit" /\ ~worker[c][i].found

\* What Validate returns for the code of call c when all the sets its lookups
\* were dispatched on are consulted
OutcomeOfDispatched(c) ==
    IF InvalidLength(promoCode[c]) THEN "ErrInvalidPromoLength"
    ELSE ValidateResult(Cardinality({i \in DOMAIN worker[c] :
                                        Contains(worker[c][i].s, promoCode[c])}))

\* C27: a Validate call whose context is not cancelled returns the outcome
\* determined by all the sets it started with, for every interleaving of Close
\* with the call's steps.
C27_CloseSafeForInFlight ==
    \A c \in Calls :
        (Returned(c) /\ ~ctxDone[c]) => ret[c] = OutcomeOfDispatched(c)

\* C28: a Validate call made after Close has returned dispatches no lookup,
\* returns InvalidLength for a code outside the length range and otherwise
\* InvalidCode, never Valid, and is never blocked: while it is in countMatches
\* its loop can end.
C28_ValidateAfterClose ==
    /\ [][\A c \in Calls :
             (couponSetsNil /\ pc[c] = "idle" /\ pc'[c] # "idle") =>
                 /\ worker'[c] = <<>> /\ chanCap'[c] = 0
                 /\ IF InvalidLength(promoCode'[c])
                    THEN pc'[c] = "done" /\ ret'[c] = "ErrInvalidPromoLength"
                    ELSE pc'[c] = "collect"]_vars
    /\ [](\A c \in Calls :
             (couponSetsNil /\ pc[c] = "collect" /\ worker[c] = <<>>) =>
                 ENABLED LoopEnd(c))
    /\ [](\A c \in Calls :
             (couponSetsNil /\ Returned(c) /\ worker[c] = <<>>) =>
                 ret[c] = IF InvalidLength(promoCode[c])
                          THEN "ErrInvalidPromoLength" ELSE "ErrInvalidPromoCode")

\* A validator of three files of which two hold the code is closed, and the
\* code is then found invalid without any lookup
C28_Witness ==
    /\ Len(config.FilePaths) = 3 /\ couponSetsNil
    /\ Returned(1) /\ promoCode[1] = CodeX /\ worker[1] = <<>>
    /\ ret[1] = "ErrInvalidPromoCode" /\ returnSite[1] = "loopEnd"

\* C29: with no context cancelled, the validator of validator.go and the
\* validator of part_008 return the same outcome for the same set list and the
\* same code, under every interleaving of the lookup goroutines of each.
C29_ValidatorsEquivalent ==
    (Returned(1) /\ wpc = "done" /\ promoCode[1] = wcode) => ret[1] = wret

\* Both return Valid for a code in two of three sets; validator.go's call
\* returned at the second hit with a lookup not yet started, part_008's call
\* after all three lookups
C29_Witness ==
    /\ Returned(1) /\ wpc = "done" /\ promoCode[1] = wcode
    /\ ret[1] = "nil" /\ wret = "nil"
    /\ Len(couponSets) = 3 /\ StoredIn(wcode) = 2
    /\ \E i \in DOMAIN worker[1] : worker[1][i].pc = "start"
    /\ \A i \in DOMAIN wworker : wworker[i].pc = "exit"

\* The calls CreateOrder has made
Called == {trace[k] : k \in DOMAIN trace}

\* BeginTx succeeded: CreateOrder went on to the first write
TxBegun == "CreateOrder" \in Called

\* Commit succeeded: CreateOrder went on to the post-commit GetByIDs
Committed == "GetByIDs" \in Called

\* C30: once BeginTx has succeeded, the transaction is finished by exactly one
\* of a successful Commit or a Rollback, Rollback is never invoked after a
\* successful Commit, and whenever CreateOrder returns an error the
\* transaction was not committed.
C30_AllOrNothing ==
    opc = "returned" =>
        /\ TxBegun => (Committed # ("Rollback" \in Called))
        /\ Committed => "Rollback" \notin Called
        /\ oret.err # "nil" => ~Committed

====
